---- MODULE Spec2Model ----
(***************************************************************************)
(* A model of pyglobalcache: the GlobalCache session (class GlobalCache),  *)
(* the relay handle (GCRelayDevice) and the IR handle (GCIRDevice).        *)
(*                                                                         *)
(* Python strings are sequences of one-character strings, so that slicing, *)
(* splitting, stripping and str() are computed as the code computes them.  *)
(* A byte that is not US-ASCII is the element "0x80".                      *)
(***************************************************************************)
EXTENDS Integers, Sequences, FiniteSets, TLC

(***************************************************************************)
(* Bounds of the model.                                                    *)
(***************************************************************************)
\* sendir calls explored per session
MaxSendIr == 2
\* the repeat counts 1..MaxCount a caller passes to sendir
MaxCount == 1

(***************************************************************************)
(* The inputs the callers draw from.                                       *)
(***************************************************************************)
\* module 3 is the relay slot of GCRelayDevice's defaults; 12 has two digits
Addrs == {<<3, 1>>, <<12, 2>>}

(***************************************************************************)
(* Module constants, lines 36-41.                                          *)
(***************************************************************************)
COMPLETEIR == <<"c","o","m","p","l","e","t","e","i","r">>
GETVERSION == <<"g","e","t","v","e","r","s","i","o","n">>
GETSERIAL == <<"g","e","t","_","S","E","R","I","A","L">>
SENDIR == <<"s","e","n","d","i","r">>
SETSTATE == <<"s","e","t","s","t","a","t","e">>
GETSTATE == <<"g","e","t","s","t","a","t","e">>

(***************************************************************************)
(* Python's string primitives.                                             *)
(***************************************************************************)
Digits == <<"0","1","2","3","4","5","6","7","8","9">>

\* str(n) of a non-negative int: its decimal digits
RECURSIVE Str(_)
Str(n) ==
    IF n < 10 THEN <<Digits[n + 1]>> ELSE Str(n \div 10) \o <<Digits[(n % 10) + 1]>>

Min(a, b) == IF a < b THEN a ELSE b

\* s[a:b] with 0 <= a <= b: the indices are clamped to the length, never an error
Slice(s, a, b) == SubSeq(s, Min(a, Len(s)) + 1, Min(b, Len(s)))

\* s[a:]
SliceFrom(s, a) == SubSeq(s, Min(a, Len(s)) + 1, Len(s))

\* the position of the first sep in s, 0 when there is none
RECURSIVE Find(_, _, _)
Find(s, sep, i) ==
    IF i > Len(s) THEN 0 ELSE IF s[i] = sep THEN i ELSE Find(s, sep, i + 1)

\* s.split(sep): the fields between the separators, empty fields kept
RECURSIVE Split(_, _)
Split(s, sep) ==
    LET k == Find(s, sep, 1)
    IN  IF k = 0 THEN <<s>>
        ELSE <<SubSeq(s, 1, k - 1)>> \o Split(SubSeq(s, k + 1, Len(s)), sep)

Whitespace == {" ", "\t", "\n", "\r"}

\* s.rstrip(): trailing whitespace removed
RECURSIVE RStrip(_)
RStrip(s) ==
    IF Len(s) > 0 /\ s[Len(s)] \in Whitespace THEN RStrip(SubSeq(s, 1, Len(s) - 1)) ELSE s

\* bytes.decode('US-ASCII') succeeds iff every byte is below 0x80
IsAscii(bytes) == \A i \in 1..Len(bytes) : bytes[i] # "0x80"

(***************************************************************************)
(* GCIRDevice.Command: the Pronto Hex decoder.                             *)
(***************************************************************************)
HexDigits == <<"0","1","2","3","4","5","6","7","8","9","A","B","C","D","E","F">>

LowerHexDigits == <<"0","1","2","3","4","5","6","7","8","9","a","b","c","d","e","f">>

IsHex(x) ==
    Len(x) > 0 /\ \A i \in 1..Len(x) : \E d \in 1..16 : x[i] \in {HexDigits[d], LowerHexDigits[d]}

HexDigitVal(c) == (CHOOSE d \in 1..16 : c \in {HexDigits[d], LowerHexDigits[d]}) - 1

\* int(x, 16) of a string of hexadecimal digits
RECURSIVE HexVal(_)
HexVal(x) ==
    IF Len(x) = 0 THEN 0
    ELSE 16 * HexVal(SubSeq(x, 1, Len(x) - 1)) + HexDigitVal(x[Len(x)])

\* prontohex.split(): the tokens between runs of whitespace
RECURSIVE SplitWs(_, _)
SplitWs(s, tok) ==
    IF Len(s) = 0 THEN (IF Len(tok) = 0 THEN <<>> ELSE <<tok>>)
    ELSE IF s[1] \in Whitespace
         THEN (IF Len(tok) = 0 THEN <<>> ELSE <<tok>>) \o SplitWs(Tail(s), <<>>)
         ELSE SplitWs(Tail(s), Append(tok, s[1]))

\* the quotient of num, given by its decimal digits, by d: schoolbook division,
\* digit by digit, so that no intermediate value leaves the 32-bit integers
RECURSIVE LongDiv(_, _, _, _)
LongDiv(digits, d, rem, quot) ==
    IF Len(digits) = 0 THEN quot
    ELSE LET cur == rem * 10 + digits[1]
         IN  LongDiv(Tail(digits), d, cur % d, quot * 10 + (cur \div d))

\* 10^12 as decimal digits
TenToThe12 == <<1,0,0,0,0,0,0,0,0,0,0,0,0>>

\* the frequency as it would be if the quotient were rounded to the nearest
\* integer: the integer part of (10^12 + d/2) / d, where d = 241246 * fcode is
\* even and d/2 has at most 8 digits
FrequencyNearest(fcode) ==
    LongDiv(<<1,0,0,0,0>> \o [i \in 1..8 |-> ((120623 * fcode) \div (10 ^ (8 - i))) % 10],
            241246 * fcode, 0, 0)

\* int(1000000.0 / (0.241246 * fcode)) = the integer part of 10^12 / (241246 * fcode)
Frequency(fcode) == LongDiv(TenToThe12, 241246 * fcode, 0, 0)

\* the loop of lines 161-162 over what is left of the token list
RECURSIVE Durations(_)
Durations(list) ==
    IF Len(list) = 0 THEN <<>>
    ELSE <<",">> \o Str(HexVal(list[1])) \o Durations(Tail(list))

\* the list as it would be left if only the type token had been popped
RemainingAfterType(list) == SubSeq(list, 2, Len(list))

\* the list after the four list.pop(0) of lines 152, 154, 158 and 159
Remaining(list) == SubSeq(list, 5, Len(list))

NoCommand == [exc |-> "none", frequency |-> 0, datastring |-> <<>>]

Raise(e) == [NoCommand EXCEPT !.exc = e]

\* Command.__init__: each _pronto_int pops the head of the list and parses it.
\* Line 155 evaluates self.InvalidProntoException on a Command, which has no such
\* attribute (the class is GCIRDevice's): what is raised is AttributeError.
Command(prontohex) ==
    LET list == SplitWs(prontohex, <<>>)
    IN  IF Len(list) < 1 THEN Raise("IndexError")
        ELSE IF ~IsHex(list[1]) THEN Raise("ValueError")
        ELSE IF HexVal(list[1]) # 0 THEN Raise("AttributeError")
        ELSE IF Len(list) < 2 THEN Raise("IndexError")
        ELSE IF ~IsHex(list[2]) THEN Raise("ValueError")
        ELSE IF HexVal(list[2]) = 0 THEN Raise("ZeroDivisionError")
        ELSE IF Len(list) < 3 THEN Raise("IndexError")
        ELSE IF ~IsHex(list[3]) THEN Raise("ValueError")
        ELSE IF Len(list) < 4 THEN Raise("IndexError")
        ELSE IF ~IsHex(list[4]) THEN Raise("ValueError")
        ELSE IF \E i \in 5..Len(list) : ~IsHex(list[i]) THEN Raise("ValueError")
        ELSE [exc |-> "none",
              frequency |-> Frequency(HexVal(list[2])),
              datastring |-> <<",">> \o Str(2 * HexVal(list[3]) + 1)
                                \o Durations(Remaining(list))]

(***************************************************************************)
(* The request strings, lines 89-93 and 106-114.                           *)
(***************************************************************************)
\* _connector
Connector(module, port) == Str(module) \o <<":">> \o Str(port)

\* _ir_string as it would be if it wrote the counter plus one
IrStringNext(module, port, seqno, command, count) ==
    SENDIR \o <<",">> \o Connector(module, port) \o <<",">> \o Str(seqno + 1) \o <<",">>
        \o Str(command.frequency) \o <<",">> \o Str(count) \o command.datastring

\* _ir_string as it would be with the count before the frequency
IrStringCountFirst(module, port, seqno, command, count) ==
    SENDIR \o <<",">> \o Connector(module, port) \o <<",">> \o Str(seqno) \o <<",">>
        \o Str(count) \o <<",">> \o Str(command.frequency) \o command.datastring

\* _ir_string, with self._sequence_no as seqno
IrString(module, port, seqno, command, count) ==
    SENDIR \o <<",">> \o Connector(module, port) \o <<",">> \o Str(seqno) \o <<",">>
        \o Str(command.frequency) \o <<",">> \o Str(count) \o command.datastring

\* _relay_set_string
RelaySetString(module, port, onoff) ==
    SETSTATE \o <<",">> \o Connector(module, port) \o <<",">>
        \o (IF onoff THEN <<"1">> ELSE <<"0">>)

\* _relay_get_string
RelayGetString(module, port) == GETSTATE \o <<",">> \o Connector(module, port)

\* the command string of getserial
SerialString(module, port) == GETSERIAL \o <<",">> \o Connector(module, port)


(***************************************************************************)
(* The parsers of the replies, lines 73-75, 98 and 103-104.  A result is   *)
(* what a call hands to its caller: a boolean, a string or an exception.   *)
(***************************************************************************)
NoResult == [kind |-> "none", b |-> FALSE, s |-> <<>>, exc |-> "none"]

Bool(b) == [kind |-> "bool", b |-> b, s |-> <<>>, exc |-> "none"]

StrResult(s) == [kind |-> "str", b |-> FALSE, s |-> s, exc |-> "none"]

Exc(e) == [kind |-> "exc", b |-> FALSE, s |-> <<>>, exc |-> e]

\* _sendir as it would be if the sequence number of the reply were not compared
SendIrResultNoSeq(commandstring, answ) ==
    LET list == Split(commandstring, ",")
        got == Split(answ, ",")
    IN  Bool(Len(got) = 3 /\ got[1] = COMPLETEIR /\ got[2] = list[2])

\* _sendir, lines 73-75: fields 1 and 2 of the comma-split command string
SendIrResult(commandstring, answ) ==
    LET list == Split(commandstring, ",")
        expected == COMPLETEIR \o <<",">> \o list[2] \o <<",">> \o list[3]
    IN  Bool(expected = answ)

\* setrelay as it would be if it expected what follows "setstate,"
SetRelayResultStrip9(cmdstring, answer) == Bool(answer = SliceFrom(cmdstring, 9))

\* setrelay as it would be if it expected the whole command back
SetRelayResultWhole(cmdstring, answer) == Bool(answer = cmdstring)

\* setrelay, line 98
SetRelayResult(cmdstring, answer) == Bool(answer = SliceFrom(cmdstring, 3))

\* getrelay as it would be if it read the state digit of "getstate,{m}:{p},{0|1}"
GetRelayResultOffset13(answer) == Bool(Slice(answer, 13, 14) = <<"1">>)

\* getrelay as it would be if it indexed the answer, answer[10], instead of slicing it
GetRelayResultIndexed(answer) ==
    IF Len(answer) > 10 THEN Bool(answer[11] = "1") ELSE Exc("IndexError")

\* getrelay, lines 103-104
GetRelayResult(answer) == Bool(Slice(answer, 10, 11) = <<"1">>)

\* _sendir as it would be without line 71
NoIncrement(s) == s

\* _sendir, line 71
NextSequenceNo(s) == s + 1

(***************************************************************************)
(* The transport and the device behind it.  The device is not part of the  *)
(* repository: it may answer a request with any of the texts below, with   *)
(* or without the line end, or not answer at all.                          *)
(***************************************************************************)
OtherModule(m) == IF m = 3 THEN 12 ELSE 3

OtherPort(p) == IF p = 1 THEN 2 ELSE 1

Bit(b) == IF b THEN <<"1">> ELSE <<"0">>

\* "completeir,{m}:{p},{n}"
CompleteIr(m, p, n) == COMPLETEIR \o <<",">> \o Connector(m, p) \o <<",">> \o Str(n)

\* "state,{m}:{p},{0|1}"
StateReply(m, p, b) == <<"s","t","a","t","e",",">> \o Connector(m, p) \o <<",">> \o Bit(b)

\* "{m}:{p},{0|1}"
BareReply(m, p, b) == Connector(m, p) \o <<",">> \o Bit(b)

\* "getstate,{m}:{p},{0|1}"
GetStateReply(m, p, b) == GETSTATE \o <<",">> \o Connector(m, p) \o <<",">> \o Bit(b)

Garbage == {<<>>, <<"E","R","R">>}

\* the texts a sendir request for connector m:p with sequence number n may be answered with
IrReplyTexts(m, p, n) ==
    Garbage
    \cup {CompleteIr(m, p, n), CompleteIr(m, p, n + 1),
          CompleteIr(OtherModule(m), p, n), CompleteIr(m, OtherPort(p), n)}
    \cup {StateReply(m, p, TRUE)}

\* the texts a setstate or getstate request for connector m:p may be answered with
RelayReplyTexts(m, p) ==
    Garbage
    \cup {StateReply(m, p, b) : b \in BOOLEAN}
    \cup {BareReply(m, p, b) : b \in BOOLEAN}
    \cup {GetStateReply(m, p, b) : b \in BOOLEAN}
    \cup {StateReply(m, OtherPort(p), TRUE), CompleteIr(m, p, 1)}

\* the replies to getversion and to get_SERIAL
Version1 == <<"7","1","0","-","1","0","0","1","-","0","5">>

Versions == {Version1, <<"7","1","0","-","1","0","0","8","-","0","5">>}

\* what an exchange may meet: no connection, no reply in time, or the bytes of a
\* reply: one of the texts and the line end, the text bare alone, or bytes that are
\* no text
Transport(texts, bare) ==
    {[st |-> "connect_failed", bytes |-> <<>>], [st |-> "timeout", bytes |-> <<>>]}
    \cup {[st |-> "reply", bytes |-> t \o <<"\r">>] : t \in texts}
    \cup {[st |-> "reply", bytes |-> bare], [st |-> "reply", bytes |-> <<"0x80", "\r">>]}

\* _sendstring as it would be if it caught the timeout of recv and returned
\* the empty answer
SendStringSwallowsTimeout(t) ==
    IF t.st = "timeout" THEN [st |-> "ok", answ |-> <<>>, sock |-> "open", met |-> t.st]
    ELSE IF t.st # "reply" THEN [st |-> t.st, answ |-> <<>>, sock |-> "open", met |-> t.st]
    ELSE IF ~IsAscii(t.bytes)
         THEN [st |-> "UnicodeDecodeError", answ |-> <<>>, sock |-> "closed", met |-> t.st]
         ELSE [st |-> "ok", answ |-> RStrip(t.bytes), sock |-> "closed", met |-> t.st]

\* _sendstring, lines 79-87, when the transport meets t: the answer, or the
\* exception, the socket it leaves in self._socket, and what the transport met
SendString(t) ==
    IF t.st # "reply" THEN [st |-> t.st, answ |-> <<>>, sock |-> "open", met |-> t.st]
    ELSE IF ~IsAscii(t.bytes)
         THEN [st |-> "UnicodeDecodeError", answ |-> <<>>, sock |-> "closed", met |-> t.st]
         ELSE [st |-> "ok", answ |-> RStrip(t.bytes), sock |-> "closed", met |-> t.st]

(***************************************************************************)
(* The state: a session, and the handles made from it for one connector.   *)
(***************************************************************************)
VARIABLES
    module,    \* GCRelayDevice._module and GCIRDevice._module
    port,      \* GCRelayDevice._port and GCIRDevice._port
    seq,       \* GlobalCache._sequence_no
    version,   \* GlobalCache._version
    sock,      \* GlobalCache._socket: "None", "open" or "closed"
    pc,        \* where the caller is: "new", "failed", "idle", or inside toggle or pulse
    cur,       \* the call in progress, or the last one
    held,      \* the local value a call in progress holds: getstate()'s result in toggle
    wire,      \* what the call in progress, or the last one, did: its exchanges and waits
    reply,     \* the outcome of the latest exchange: the answer, or the exception
    result,    \* what the last finished call handed to its caller
    relay,     \* the device: whether the relay at the connector is on
    nsendir,   \* the number of calls of sendir made so far
    irPronto,  \* the Pronto Hex text a GCIRDevice.Command is made from
    irCommand, \* the Command made from it, or the exception that ended its making
    irCount,   \* the count _ir_string was last given
    irString   \* what _ir_string last returned

irvars == <<irPronto, irCommand, irCount, irString>>

vars ==
    <<module, port, seq, version, sock, pc, cur, held, wire, reply, result, relay, nsendir,
      irPronto, irCommand, irCount, irString>>

\* GCRelayDevice.__init__, line 177: pulselength=1
PulseLength == 1

\* one request/response exchange, as the wire saw it: the request, what the
\* method that made it returned, and the relay at the device when it was sent
Exchange(cmd, ret, dev) == [ev |-> "exchange", cmd |-> cmd, ret |-> ret, dev |-> dev, secs |-> 0]

\* time.sleep(secs)
Sleep(secs) == [ev |-> "sleep", cmd |-> <<>>, ret |-> NoResult, dev |-> FALSE, secs |-> secs]

\* a call: the method, and of its arguments and of what it read those that are
\* looked at later: the command name (send), onoff (setrelay), the counter (sendir)
Call(op, name, onoff, seqno) == [op |-> op, name |-> name, onoff |-> onoff, seqno |-> seqno]

NoReply == [st |-> "none", answ |-> <<>>, met |-> "none"]

Reply(o) == [st |-> o.st, answ |-> o.answ, met |-> o.met]

\* the device after a setstate request was sent to it
RelayAfter(o, onoff) == IF o.st = "connect_failed" THEN relay ELSE onoff

Init ==
    /\ \E a \in Addrs : module = a[1] /\ port = a[2]
    /\ seq = 1
    /\ version = <<>>
    /\ sock = "None"
    /\ pc = "new"
    /\ cur = Call("__init__", "", FALSE, 0)
    /\ held = NoResult
    /\ wire = <<>>
    /\ reply = NoReply
    /\ result = NoResult
    /\ relay \in BOOLEAN
    /\ nsendir = 0
    /\ irPronto = <<>>
    /\ irCommand = NoCommand
    /\ irCount = 0
    /\ irString = <<>>

\* the constructor as it would be if it caught the error of its exchange and
\* handed out the object all the same
ConstructSwallows ==
    /\ pc = "new"
    /\ \E t \in Transport(Versions, Version1) :
         LET o == SendString(t)
             ret == IF o.st = "ok" THEN StrResult(o.answ) ELSE Exc(o.st)
         IN  /\ wire' = <<Exchange(GETVERSION, ret, FALSE)>>
             /\ reply' = Reply(o)
             /\ sock' = o.sock
             /\ version' = IF o.st = "ok" THEN o.answ ELSE version
             /\ pc' = "idle"
             /\ result' = NoResult
    /\ UNCHANGED <<irvars, module, port, seq, cur, held, relay, nsendir>>

\* GlobalCache.__init__, line 52: the getversion exchange of the constructor
Construct ==
    /\ pc = "new"
    /\ \E t \in Transport(Versions, Version1) :
         LET o == SendString(t)
             ret == IF o.st = "ok" THEN StrResult(o.answ) ELSE Exc(o.st)
         IN  /\ wire' = <<Exchange(GETVERSION, ret, FALSE)>>
             /\ reply' = Reply(o)
             /\ sock' = o.sock
             /\ version' = IF o.st = "ok" THEN o.answ ELSE version
             /\ pc' = IF o.st = "ok" THEN "idle" ELSE "failed"
             /\ result' = IF o.st = "ok" THEN NoResult ELSE ret
    /\ UNCHANGED <<irvars, module, port, seq, cur, held, relay, nsendir>>

\* getversion as it would be if it asked the device again
GetVersionRequery ==
    /\ pc = "idle"
    /\ \E t \in Transport(Versions, Version1) :
         LET o == SendString(t)
             ret == IF o.st = "ok" THEN StrResult(o.answ) ELSE Exc(o.st)
         IN  /\ wire' = <<Exchange(GETVERSION, ret, FALSE)>>
             /\ reply' = Reply(o)
             /\ sock' = o.sock
             /\ version' = IF o.st = "ok" THEN o.answ ELSE version
             /\ result' = ret
    /\ cur' = Call("getversion", "", FALSE, 0)
    /\ UNCHANGED <<irvars, module, port, seq, pc, held, relay, nsendir>>

\* GlobalCache.getversion
GetVersion ==
    /\ pc = "idle"
    /\ cur' = Call("getversion", "", FALSE, 0)
    /\ wire' = <<>>
    /\ result' = StrResult(version)
    /\ UNCHANGED <<irvars, module, port, seq, version, sock, pc, held, reply, relay, nsendir>>

\* GlobalCache.getserial
GetSerial ==
    /\ pc = "idle"
    /\ \E t \in Transport(Versions, Version1) :
         LET o == SendString(t)
             ret == IF o.st = "ok" THEN StrResult(o.answ) ELSE Exc(o.st)
         IN  /\ wire' = <<Exchange(SerialString(module, port), ret, FALSE)>>
             /\ reply' = Reply(o)
             /\ sock' = o.sock
             /\ result' = ret
    /\ cur' = Call("getserial", "", FALSE, 0)
    /\ UNCHANGED <<irvars, module, port, seq, version, pc, held, relay, nsendir>>

\* setrelay as it would be if it sent the request a second time when the first
\* exchange raised
SetRelayRetry(onoff) ==
    /\ pc = "idle"
    /\ \E t \in Transport(RelayReplyTexts(module, port), StateReply(module, port, TRUE)) :
         LET o == SendString(t)
             cmdstring == RelaySetString(module, port, onoff)
             ret == IF o.st = "ok" THEN SetRelayResult(cmdstring, o.answ) ELSE Exc(o.st)
         IN  /\ wire' = IF o.st = "ok" THEN <<Exchange(cmdstring, ret, relay)>>
                        ELSE <<Exchange(cmdstring, ret, relay), Exchange(cmdstring, ret, relay)>>
             /\ reply' = Reply(o)
             /\ sock' = o.sock
             /\ result' = ret
             /\ relay' = RelayAfter(o, onoff)
    /\ cur' = Call("setrelay", "", onoff, 0)
    /\ UNCHANGED <<irvars, module, port, seq, version, pc, held, nsendir>>

\* GlobalCache.setrelay, called by GCRelayDevice.setstate, turn_on and turn_off
SetRelay(onoff) ==
    /\ pc = "idle"
    /\ \E t \in Transport(RelayReplyTexts(module, port), StateReply(module, port, TRUE)) :
         LET o == SendString(t)
             cmdstring == RelaySetString(module, port, onoff)
             ret == IF o.st = "ok" THEN SetRelayResult(cmdstring, o.answ) ELSE Exc(o.st)
         IN  /\ wire' = <<Exchange(cmdstring, ret, relay)>>
             /\ reply' = Reply(o)
             /\ sock' = o.sock
             /\ result' = ret
             /\ relay' = RelayAfter(o, onoff)
    /\ cur' = Call("setrelay", "", onoff, 0)
    /\ UNCHANGED <<irvars, module, port, seq, version, pc, held, nsendir>>

\* GlobalCache.getrelay, called by GCRelayDevice.getstate
GetRelay ==
    /\ pc = "idle"
    /\ \E t \in Transport(RelayReplyTexts(module, port), StateReply(module, port, TRUE)) :
         LET o == SendString(t)
             ret == IF o.st = "ok" THEN GetRelayResult(o.answ) ELSE Exc(o.st)
         IN  /\ wire' = <<Exchange(RelayGetString(module, port), ret, relay)>>
             /\ reply' = Reply(o)
             /\ sock' = o.sock
             /\ result' = ret
    /\ cur' = Call("getrelay", "", FALSE, 0)
    /\ UNCHANGED <<irvars, module, port, seq, version, pc, held, relay, nsendir>>

(***************************************************************************)
(* Sending an IR command.                                                  *)
(***************************************************************************)
\* "0000 006D 0001 0000 0010 0020"
OkPronto ==
    <<"0","0","0","0"," ","0","0","6","D"," ","0","0","0","1"," ",
      "0","0","0","0"," ","0","0","1","0"," ","0","0","2","0">>

\* the dict a GCIRDevice is given as its commands
CommandTable == [ok |-> Command(OkPronto)]

\* the names callers ask for: one in the table, one not
Names == {"ok", "mute"}

\* the lookup as it would be if a missing name fell back to a command of the table
LookupDefault(commands, name) ==
    IF name \in DOMAIN commands
    THEN [exc |-> "none", command |-> commands[name]]
    ELSE [exc |-> "none", command |-> commands["ok"]]

\* self._commands[command_name], line 131
Lookup(commands, name) ==
    IF name \in DOMAIN commands
    THEN [exc |-> "none", command |-> commands[name]]
    ELSE [exc |-> "KeyError", command |-> NoCommand]

\* GlobalCache.sendir and _sendir, lines 66-75, for the command called name
SendIr(name, command, count) ==
    /\ nsendir < MaxSendIr
    /\ \E t \in Transport(IrReplyTexts(module, port, seq), CompleteIr(module, port, seq)) :
         LET cmdstring == IrString(module, port, seq, command, count)
             o == SendString(t)
             ret == IF o.st = "ok" THEN SendIrResult(cmdstring, o.answ) ELSE Exc(o.st)
         IN  /\ seq' = NextSequenceNo(seq)
             /\ wire' = <<Exchange(cmdstring, ret, FALSE)>>
             /\ reply' = Reply(o)
             /\ sock' = o.sock
             /\ result' = ret
    /\ cur' = Call("sendir", name, FALSE, seq)
    /\ nsendir' = nsendir + 1
    /\ UNCHANGED <<irvars, module, port, version, pc, held, relay>>

\* GCIRDevice.send, lines 130-132
Send(name, count) ==
    /\ pc = "idle"
    /\ LET found == Lookup(CommandTable, name)
       IN  IF found.exc # "none"
           THEN /\ cur' = Call("send", name, FALSE, 0)
                /\ wire' = <<>>
                /\ result' = Exc(found.exc)
                /\ UNCHANGED <<irvars, module, port, seq, version, sock, pc, held, reply, relay, nsendir>>
           ELSE SendIr(name, found.command, count)

(***************************************************************************)
(* GCRelayDevice.toggle and pulse: two exchanges each, and between them    *)
(* the device is on its own.                                               *)
(***************************************************************************)
\* toggle as it would be without the "not"
ToggleSame(state) == state

\* toggle, line 193: the argument of setstate
ToggleTarget(state) == ~state

\* pulse as it would be without the test of lines 200-201
PulseAlwaysGoesOn(status) == TRUE

\* pulse, lines 200-201: whether the call goes on after turn_on
PulseGoesOn(status) == status

\* pulse as it would be if it dropped the status of turn_off
PulseReturnTrue(offresult) == TRUE

\* pulse, line 203: what the call returns after turn_off
PulseReturn(offresult) == offresult

\* toggle, line 193: self.getstate()
ToggleGet ==
    /\ pc = "idle"
    /\ \E t \in Transport(RelayReplyTexts(module, port), StateReply(module, port, TRUE)) :
         LET o == SendString(t)
             ret == IF o.st = "ok" THEN GetRelayResult(o.answ) ELSE Exc(o.st)
         IN  /\ wire' = <<Exchange(RelayGetString(module, port), ret, relay)>>
             /\ reply' = Reply(o)
             /\ sock' = o.sock
             /\ IF ret.kind = "bool"
                THEN pc' = "toggle_set" /\ held' = ret /\ result' = NoResult
                ELSE pc' = "idle" /\ held' = NoResult /\ result' = ret
    /\ cur' = Call("toggle", "", FALSE, 0)
    /\ UNCHANGED <<irvars, module, port, seq, version, relay, nsendir>>

\* toggle, line 193: self.setstate(not ...)
ToggleSet ==
    /\ pc = "toggle_set"
    /\ \E t \in Transport(RelayReplyTexts(module, port), StateReply(module, port, TRUE)) :
         LET o == SendString(t)
             onoff == ToggleTarget(held.b)
             cmdstring == RelaySetString(module, port, onoff)
             ret == IF o.st = "ok" THEN SetRelayResult(cmdstring, o.answ) ELSE Exc(o.st)
         IN  /\ wire' = Append(wire, Exchange(cmdstring, ret, relay))
             /\ reply' = Reply(o)
             /\ sock' = o.sock
             /\ result' = ret
             /\ relay' = RelayAfter(o, onoff)
    /\ pc' = "idle"
    /\ held' = NoResult
    /\ UNCHANGED <<irvars, module, port, seq, version, cur, nsendir>>

\* pulse, lines 199-201: self.turn_on() and the test of its status
PulseOn ==
    /\ pc = "idle"
    /\ \E t \in Transport(RelayReplyTexts(module, port), StateReply(module, port, TRUE)) :
         LET o == SendString(t)
             cmdstring == RelaySetString(module, port, TRUE)
             status == IF o.st = "ok" THEN SetRelayResult(cmdstring, o.answ) ELSE Exc(o.st)
         IN  /\ wire' = <<Exchange(cmdstring, status, relay)>>
             /\ reply' = Reply(o)
             /\ sock' = o.sock
             /\ relay' = RelayAfter(o, TRUE)
             /\ IF status.kind # "bool"
                THEN pc' = "idle" /\ result' = status
                ELSE IF PulseGoesOn(status.b)
                     THEN pc' = "pulse_sleep" /\ result' = NoResult
                     ELSE pc' = "idle" /\ result' = Bool(FALSE)
    /\ cur' = Call("pulse", "", FALSE, 0)
    /\ UNCHANGED <<irvars, module, port, seq, version, held, nsendir>>

\* pulse, line 202: time.sleep(self._pulselength)
PulseSleep ==
    /\ pc = "pulse_sleep"
    /\ wire' = Append(wire, Sleep(PulseLength))
    /\ pc' = "pulse_off"
    /\ UNCHANGED <<irvars, module, port, seq, version, sock, cur, held, reply, result, relay, nsendir>>

\* pulse, line 203: return self.turn_off()
PulseOff ==
    /\ pc = "pulse_off"
    /\ \E t \in Transport(RelayReplyTexts(module, port), StateReply(module, port, TRUE)) :
         LET o == SendString(t)
             cmdstring == RelaySetString(module, port, FALSE)
             ret == IF o.st = "ok" THEN SetRelayResult(cmdstring, o.answ) ELSE Exc(o.st)
         IN  /\ wire' = Append(wire, Exchange(cmdstring, ret, relay))
             /\ reply' = Reply(o)
             /\ sock' = o.sock
             /\ relay' = RelayAfter(o, FALSE)
             /\ result' = IF ret.kind = "bool" THEN Bool(PulseReturn(ret.b)) ELSE ret
    /\ pc' = "idle"
    /\ UNCHANGED <<irvars, module, port, seq, version, cur, held, nsendir>>

\* another party switches the relay at the device
ExternalChange ==
    /\ pc \in {"idle", "toggle_set", "pulse_sleep", "pulse_off"}
    /\ relay' = ~relay
    /\ UNCHANGED <<irvars, module, port, seq, version, sock, pc, cur, held, wire, reply, result, nsendir>>

Next ==
    \/ Construct
    \/ GetVersion
    \/ GetSerial
    \/ \E onoff \in BOOLEAN : SetRelay(onoff)
    \/ GetRelay
    \/ \E name \in Names, count \in 1..MaxCount : Send(name, count)
    \/ ToggleGet
    \/ ToggleSet
    \/ PulseOn
    \/ PulseSleep
    \/ PulseOff
    \/ ExternalChange

Spec == Init /\ [][Next]_vars

(***************************************************************************)
(* GCIRDevice.Command and _ir_string on their own: a Pronto Hex text is    *)
(* decoded, and the Command made from it is put into a sendir string.      *)
(***************************************************************************)
\* the longest run of duration tokens in the texts decoded
MaxDurations == 2

\* a number below 65536 as the four hexadecimal digits Pronto Hex writes it with
Hex4(n) ==
    <<HexDigits[((n \div 4096) % 16) + 1], HexDigits[((n \div 256) % 16) + 1],
      HexDigits[((n \div 16) % 16) + 1], HexDigits[(n % 16) + 1]>>

\* tokens with single spaces between them
RECURSIVE Join(_)
Join(tokens) ==
    IF Len(tokens) = 0 THEN <<>>
    ELSE IF Len(tokens) = 1 THEN tokens[1]
    ELSE tokens[1] \o <<" ">> \o Join(Tail(tokens))

\* the token sequences of length n over the tokens in toks
RECURSIVE TokenSeqs(_, _)
TokenSeqs(toks, n) ==
    IF n = 0 THEN {<<>>}
    ELSE {Append(q, t) : q \in TokenSeqs(toks, n - 1), t \in toks}

\* the type tokens tried: raw Pronto (0000), and two other types
TypeTokens == {Hex4(0), Hex4(1), Hex4(256)}

\* the frequency codes tried: 109 and 64 (quotients with a fraction above
\* one half), 104 and 1 (below one half), and 0
FcodeTokens == {Hex4(109), Hex4(64), Hex4(104), Hex4(1), Hex4(0)}

\* the numbers of intro pairs tried
IntroTokens == {Hex4(0), Hex4(1)}

\* the number of repeat pairs: read and dropped by line 159
RepeatTokens == {Hex4(2)}

DurationTokens == {Hex4(16), Hex4(32)}

\* full texts: four header tokens and up to MaxDurations duration tokens
FullProntos ==
    {Join(<<t, f, i, r>> \o d) :
        t \in TypeTokens, f \in FcodeTokens, i \in IntroTokens, r \in RepeatTokens,
        d \in UNION {TokenSeqs(DurationTokens, n) : n \in 0..MaxDurations}}

\* texts that end inside the header, a token that is no number, a lower-case
\* token, and more than one space between tokens
OddProntos ==
    {<<>>, Hex4(0), Join(<<Hex4(0), Hex4(109)>>), Join(<<Hex4(0), Hex4(109), Hex4(1)>>),
     Join(<<Hex4(0), Hex4(109), Hex4(1), Hex4(2), <<"0","0","G","0">>>>),
     Join(<<Hex4(0), <<"0","0","6","d">>, Hex4(1), Hex4(2), Hex4(16)>>),
     Hex4(0) \o <<" ", " ">> \o Join(<<Hex4(109), Hex4(1), Hex4(2), Hex4(32)>>)}

ProntoInputs == FullProntos \cup OddProntos

\* the counts sendir is called with
IrCounts == {1, 3}

DecodeInit ==
    /\ \E a \in Addrs : module = a[1] /\ port = a[2]
    /\ seq \in 1..MaxSendIr
    /\ version = <<>>
    /\ sock = "None"
    /\ pc = "decode"
    /\ cur = Call("Command", "", FALSE, 0)
    /\ held = NoResult
    /\ wire = <<>>
    /\ reply = NoReply
    /\ result = NoResult
    /\ relay = FALSE
    /\ nsendir = 0
    /\ irPronto \in ProntoInputs
    /\ irCommand = NoCommand
    /\ irCount = 0
    /\ irString = <<>>

\* GCIRDevice.Command(prontohex), lines 150-162
Decode ==
    /\ pc = "decode"
    /\ irCommand' = Command(irPronto)
    /\ pc' = IF irCommand'.exc = "none" THEN "decoded" ELSE "raised"
    /\ UNCHANGED <<module, port, seq, version, sock, cur, held, wire, reply, result, relay,
                   nsendir, irPronto, irCount, irString>>

\* _ir_string(module, port, command, count), lines 92-93, on the Command made
BuildIr ==
    /\ pc = "decoded"
    /\ \E c \in IrCounts :
         /\ irCount' = c
         /\ irString' = IrString(module, port, seq, irCommand, c)
    /\ pc' = "built"
    /\ UNCHANGED <<module, port, seq, version, sock, cur, held, wire, reply, result, relay,
                   nsendir, irPronto, irCommand>>

DecodeNext ==
    \/ Decode
    \/ BuildIr

DecodeSpec == DecodeInit /\ [][DecodeNext]_vars

(***************************************************************************)
(* The properties.                                                         *)
(***************************************************************************)
\* the requests, spelled out for the two connectors
ConnectorText == IF module = 3 THEN <<"3",":","1">> ELSE <<"1","2",":","2">>

SetStateText(onoff) ==
    <<"s","e","t","s","t","a","t","e",",">> \o ConnectorText \o <<",">>
        \o (IF onoff THEN <<"1">> ELSE <<"0">>)

GetStateText == <<"g","e","t","s","t","a","t","e",",">> \o ConnectorText

\* C1: in pulse(), whenever the turn-on exchange returns false, the call is over
\* with the result false and its only round trip is the setstate-1 request: no
\* setstate-0 request is sent.
C1_PulseStopsAfterFailedOn ==
    (cur.op = "pulse" /\ Len(wire) >= 1 /\ wire[1].ret = Bool(FALSE)) =>
        /\ pc = "idle"
        /\ result = Bool(FALSE)
        /\ Len(wire) = 1
        /\ wire[1].ev = "exchange"
        /\ wire[1].cmd = SetStateText(TRUE)

\* a pulse whose turn-on was answered by a text other than the expected one
C1_Witness ==
    /\ cur.op = "pulse"
    /\ Len(wire) = 1
    /\ wire[1].ret = Bool(FALSE)
    /\ reply.st = "ok"
    /\ result = Bool(FALSE)

\* C2: in pulse(), when the turn-on exchange returns true, the call does, in this
\* order and nothing else, the setstate-1 request, the wait of the pulse length
\* and the setstate-0 request, and hands back the result of the turn-off exchange.
C2_PulseOrder ==
    (cur.op = "pulse" /\ Len(wire) >= 1 /\ wire[1].ret = Bool(TRUE)) =>
        /\ wire[1].ev = "exchange" /\ wire[1].cmd = SetStateText(TRUE)
        /\ pc \in {"pulse_sleep", "pulse_off", "idle"}
        /\ pc = "pulse_sleep" => Len(wire) = 1
        /\ pc = "pulse_off" => Len(wire) = 2
        /\ pc = "idle" => Len(wire) = 3
        /\ Len(wire) >= 2 => wire[2] = Sleep(PulseLength)
        /\ Len(wire) >= 3 =>
              /\ wire[3].ev = "exchange"
              /\ wire[3].cmd = SetStateText(FALSE)
              /\ result = wire[3].ret

\* a pulse that switched on, waited, and whose turn-off was not confirmed
C2_Witness ==
    /\ cur.op = "pulse"
    /\ pc = "idle"
    /\ Len(wire) = 3
    /\ wire[1].ret = Bool(TRUE)
    /\ wire[3].ret = Bool(FALSE)
    /\ result = Bool(FALSE)

\* C3: toggle() does a getstate request and, once that reported a state, a
\* setstate request and nothing else; the setstate carries the opposite of the
\* reported state (true leads to 0, false to 1), whatever the relay is by then.
C3_ToggleTwoRoundTrips ==
    cur.op = "toggle" =>
        /\ Len(wire) >= 1
        /\ wire[1].ev = "exchange" /\ wire[1].cmd = GetStateText
        /\ pc \in {"toggle_set", "idle"}
        /\ pc = "toggle_set" => Len(wire) = 1 /\ wire[1].ret.kind = "bool"
        /\ (pc = "idle" /\ wire[1].ret.kind = "bool") =>
              /\ Len(wire) = 2
              /\ wire[2].ev = "exchange"
              /\ wire[1].ret.b => wire[2].cmd = SetStateText(FALSE)
              /\ ~wire[1].ret.b => wire[2].cmd = SetStateText(TRUE)
              /\ result = wire[2].ret
        /\ (pc = "idle" /\ wire[1].ret.kind # "bool") => Len(wire) = 1

\* a toggle that read "on" from a relay that was on, and sent setstate 0 to a
\* relay that another party had switched off in between
C3_Witness ==
    /\ cur.op = "toggle"
    /\ pc = "idle"
    /\ Len(wire) = 2
    /\ wire[1].dev /\ wire[1].ret = Bool(TRUE)
    /\ ~wire[2].dev
    /\ wire[2].cmd = SetStateText(FALSE)

\* C4: sendir returns true if and only if the reply is "completeir,{module}:{port},{seq}"
\* with the module, the port and the sequence number of the request just sent.
C4_SendIrTrueIffComplete ==
    (cur.op = "sendir" /\ reply.st = "ok") =>
        LET prefix == <<"s","e","n","d","i","r",",">> \o ConnectorText \o <<",">>
                          \o Str(cur.seqno) \o <<",">>
        IN  /\ Len(wire) = 1
            /\ SubSeq(wire[1].cmd, 1, Len(prefix)) = prefix
            /\ result.kind = "bool"
            /\ result.b <=> reply.answ = <<"c","o","m","p","l","e","t","e","i","r",",">>
                                           \o ConnectorText \o <<",">> \o Str(cur.seqno)

\* the second sendir of a session, answered as expected
C4_Witness ==
    /\ cur.op = "sendir"
    /\ cur.seqno = 2
    /\ reply.st = "ok"
    /\ result = Bool(TRUE)

\* C5: the sequence counter is 1 plus the number of sendir calls made so far,
\* whatever each of them returned or raised and whatever else was called.
C5_SequenceCountsSendIr == seq = 1 + nsendir

\* two sendir calls, the second ended by a transport error
C5_Witness ==
    /\ cur.op = "sendir"
    /\ nsendir = 2
    /\ seq = 3
    /\ result.kind = "exc"

\* C6: the set-relay request is "setstate,{module}:{port},1" for on and
\* "setstate,{module}:{port},0" for off, and setrelay returns true if and only if
\* the reply is that request without its first 3 characters.
C6_SetRelayTrueIffEcho ==
    (cur.op = "setrelay" /\ reply.st = "ok") =>
        /\ Len(wire) = 1
        /\ wire[1].cmd = SetStateText(cur.onoff)
        /\ result.kind = "bool"
        /\ result.b <=> reply.answ = SubSeq(wire[1].cmd, 4, Len(wire[1].cmd))

\* a switch-on that was confirmed
C6_Witness ==
    /\ cur.op = "setrelay"
    /\ cur.onoff
    /\ reply.st = "ok"
    /\ result = Bool(TRUE)

\* C7 as stated: when the device answers a setstate request with
\* "{module}:{port},{0|1}", what follows "setstate,", setrelay returns true.
C7_BareEchoConfirms ==
    (cur.op = "setrelay" /\ reply.st = "ok"
        /\ reply.answ = ConnectorText \o <<",">> \o Bit(cur.onoff)) =>
        result = Bool(TRUE)

\* C7: when the device answers a setstate request with "state,{module}:{port},{0|1}",
\* the request without its first 3 characters, setrelay returns true; when it
\* answers with "{module}:{port},{0|1}", setrelay returns false.
C7_StateEchoConfirms ==
    (cur.op = "setrelay" /\ reply.st = "ok") =>
        /\ reply.answ = <<"s","t","a","t","e",",">> \o ConnectorText \o <<",">> \o Bit(cur.onoff)
              => result = Bool(TRUE)
        /\ reply.answ = ConnectorText \o <<",">> \o Bit(cur.onoff)
              => result = Bool(FALSE)

\* a switch-off answered "state,{module}:{port},0"
C7_Witness ==
    /\ cur.op = "setrelay"
    /\ ~cur.onoff
    /\ reply.st = "ok"
    /\ reply.answ = <<"s","t","a","t","e",",">> \o ConnectorText \o <<",","0">>
    /\ result = Bool(TRUE)

\* C8 as stated: for a single-digit module and port, when the reply to getstate
\* is "getstate,{module}:{port},{0|1}", getrelay returns true if and only if the
\* state digit of the reply is 1.
C8_GetStateFormRead ==
    (cur.op = "getrelay" /\ reply.st = "ok" /\ module < 10 /\ port < 10) =>
        \A b \in BOOLEAN :
            reply.answ = GetStateText \o <<",">> \o Bit(b) => result = Bool(b)

\* C8: for a single-digit module and port, when the reply to getstate is
\* "state,{module}:{port},{0|1}", getrelay returns true if and only if the state
\* digit of the reply is 1: the character at offset 10 is the state digit.  When
\* the reply is "getstate,{module}:{port},{0|1}", getrelay returns false.
C8_StateFormRead ==
    (cur.op = "getrelay" /\ reply.st = "ok" /\ module < 10 /\ port < 10) =>
        \A b \in BOOLEAN :
            /\ reply.answ = <<"s","t","a","t","e",",">> \o ConnectorText \o <<",">> \o Bit(b)
                  => /\ reply.answ[11] = Bit(b)[1]
                     /\ result = Bool(b)
            /\ reply.answ = GetStateText \o <<",">> \o Bit(b)
                  => result = Bool(FALSE)

\* a getrelay on connector 3:1 answered "state,3:1,1"
C8_Witness ==
    /\ cur.op = "getrelay"
    /\ module < 10 /\ port < 10
    /\ reply.st = "ok"
    /\ reply.answ = <<"s","t","a","t","e",",","3",":","1",",","1">>
    /\ result = Bool(TRUE)

\* C9: whatever text the reply is, the empty one and those shorter than 11
\* characters included, sendir, setrelay and getrelay return a boolean, and
\* false when the text is not the expected one.
C9_MismatchIsFalse ==
    (cur.op \in {"sendir", "setrelay", "getrelay"} /\ reply.st = "ok") =>
        /\ result.kind = "bool"
        /\ Len(reply.answ) < 11 => result = Bool(FALSE)
        /\ (cur.op = "getrelay" /\ result.b) => reply.answ[11] = "1"
        /\ (cur.op = "sendir" /\ result.b) => SubSeq(reply.answ, 1, 10) = COMPLETEIR
        /\ (cur.op = "setrelay" /\ result.b)
              => SubSeq(reply.answ, 1, 6) = <<"s","t","a","t","e",",">>

\* a getrelay answered by the empty text
C9_Witness ==
    /\ cur.op = "getrelay"
    /\ reply.st = "ok"
    /\ reply.answ = <<>>
    /\ result = Bool(FALSE)

Tokens == SplitWs(irPronto, <<>>)

\* Command.__init__ has run, to its end or to an exception
Decoded == pc \in {"decoded", "raised", "built"}

\* C11 as stated: decoding a text whose first token is a number other than 0000
\* fails with InvalidProntoException and leaves no signal, not even a partly
\* filled one.
C11_UnsupportedTypeError ==
    (Decoded /\ Len(Tokens) >= 1 /\ IsHex(Tokens[1]) /\ HexVal(Tokens[1]) # 0) =>
        /\ irCommand.exc = "InvalidProntoException"
        /\ irCommand.frequency = 0
        /\ irCommand.datastring = <<>>

\* the text "0001 006D 0001 0002" decoded: what is raised is AttributeError
C11_Witness ==
    /\ pc = "raised"
    /\ irPronto = Join(<<Hex4(1), Hex4(109), Hex4(1), Hex4(2)>>)
    /\ irCommand = Raise("AttributeError")

\* what int(1000000.0 / (0.241246 * fcode)) evaluates to for the codes decoded
TruncatedHz(fcode) ==
    CASE fcode = 1 -> 4145146
      [] fcode = 64 -> 64767
      [] fcode = 104 -> 39857
      [] fcode = 109 -> 38028

\* what round(1000000.0 / (0.241246 * fcode)) evaluates to for the same codes
NearestHz(fcode) ==
    CASE fcode = 1 -> 4145146
      [] fcode = 64 -> 64768
      [] fcode = 104 -> 39857
      [] fcode = 109 -> 38029

\* C12 as stated: for every fcode >= 1 in the second token the decoded frequency
\* is 1,000,000 / (0.241246 x fcode) rounded to the nearest integer.
C12_FrequencyNearest ==
    (Decoded /\ irCommand.exc = "none") =>
        irCommand.frequency = NearestHz(HexVal(Tokens[2]))

\* C12: for every fcode >= 1 in the second token the decoded frequency is
\* 1,000,000 / (0.241246 x fcode) truncated to an integer, the fraction dropped:
\* 38028 for fcode 109, where the quotient is 38028.87.
C12_FrequencyTruncated ==
    (Decoded /\ irCommand.exc = "none") =>
        /\ HexVal(Tokens[2]) >= 1
        /\ irCommand.frequency = TruncatedHz(HexVal(Tokens[2]))

\* fcode 006D decoded to 38028, one below the nearest integer
C12_Witness ==
    /\ pc = "decoded"
    /\ Tokens[2] = Hex4(109)
    /\ irCommand.frequency = 38028
    /\ NearestHz(109) = 38029

\* the tokens of list as decimal texts, the way str(int(x, 16)) writes them
Values(list) == [i \in 1..Len(list) |-> Str(HexVal(list[i]))]

\* the comma-separated fields of the Command's data string
DataFields == Split(irCommand.datastring, ",")

\* C13 as stated: the durations of a decoded signal are all the tokens but the
\* type token, as numbers and in their order: the fcode, the intro count and the
\* repeat count, then every token after the header.
C13_AllButTypeToken ==
    (Decoded /\ irCommand.exc = "none") =>
        SubSeq(DataFields, 3, Len(DataFields)) = Values(SubSeq(Tokens, 2, Len(Tokens)))

\* C13: the durations of a decoded signal are the tokens after the four header
\* tokens, as numbers and in their order; in the data string they follow the
\* count 2 x intro + 1, and no header token is among them.
C13_TokensAfterHeader ==
    (Decoded /\ irCommand.exc = "none") =>
        /\ Len(Tokens) >= 4
        /\ DataFields[1] = <<>>
        /\ DataFields[2] = Str(2 * HexVal(Tokens[3]) + 1)
        /\ SubSeq(DataFields, 3, Len(DataFields)) = Values(SubSeq(Tokens, 5, Len(Tokens)))

\* "0000 006D 0001 0002 0010 0020" decoded to ",3,16,32"
C13_Witness ==
    /\ pc = "decoded"
    /\ irPronto = Join(<<Hex4(0), Hex4(109), Hex4(1), Hex4(2), Hex4(16), Hex4(32)>>)
    /\ irCommand.datastring = <<",","3",",","1","6",",","3","2">>

\* C18: the sendir string is, comma-separated and in this order, "sendir",
\* "{module}:{port}", the sequence number, the frequency, the caller's count, the
\* count 2 x intro + 1 from the third token, and the durations in their order,
\* however many durations there are.
C18_SendIrString ==
    pc = "built" =>
        Split(irString, ",") =
            <<<<"s","e","n","d","i","r">>, ConnectorText, Str(seq),
              Str(TruncatedHz(HexVal(Tokens[2]))), Str(irCount),
              Str(2 * HexVal(Tokens[3]) + 1)>>
            \o Values(SubSeq(Tokens, 5, Len(Tokens)))

\* a string built for count 3 from a text with no intro pair and two durations:
\* the derived count is 1
C18_Witness ==
    /\ pc = "built"
    /\ irCount = 3
    /\ seq = 2
    /\ Tokens[3] = Hex4(0)
    /\ Len(Tokens) = 6
    /\ Split(irString, ",")[6] = <<"1">>
    /\ Len(Split(irString, ",")) = 8

(***************************************************************************)
(* The session: its construction, its version, its exchanges.              *)
(***************************************************************************)
\* C14: the constructor makes exactly one exchange, the getversion request,
\* and nothing is called before it; when that exchange fails, its error is
\* what the caller gets, there is no object, and no method is ever called.
C14_ConstructOneExchange ==
    /\ pc = "new" => (cur.op = "__init__" /\ wire = <<>> /\ sock = "None")
    /\ cur.op # "__init__" => pc \notin {"new", "failed"}
    /\ (cur.op = "__init__" /\ pc # "new") =>
          /\ Len(wire) = 1
          /\ wire[1].ev = "exchange"
          /\ wire[1].cmd = <<"g","e","t","v","e","r","s","i","o","n">>
          /\ pc = "failed" <=> reply.st # "ok"
          /\ pc = "idle" => version = reply.answ
    /\ pc = "failed" =>
          /\ cur.op = "__init__"
          /\ reply.st \in {"connect_failed", "timeout", "UnicodeDecodeError"}
          /\ result = Exc(reply.st)
          /\ wire[1].ret = result
          /\ version = <<>>

\* a construction that met a device that did not accept the connection
C14_Witness ==
    /\ pc = "failed"
    /\ cur.op = "__init__"
    /\ Len(wire) = 1
    /\ reply.met = "connect_failed"
    /\ result = Exc("connect_failed")

\* C15: once the constructor is through, the version never changes: it is the
\* answer to the constructor's getversion; getversion returns it, makes no
\* exchange and changes nothing of the session or the device.
C15_GetVersionCached ==
    [][/\ (pc = "new" /\ pc' = "idle") => version' = reply'.answ
       /\ pc # "new" => version' = version
       /\ (cur'.op = "getversion" /\ <<cur', wire', result'>> # <<cur, wire, result>>) =>
             /\ result' = StrResult(version)
             /\ wire' = <<>>
             /\ UNCHANGED <<seq, nsendir, sock, reply, pc, relay, version>>]_vars

\* a getversion after a sendir that timed out: the version is still returned,
\* and the socket of the sendir is as it was left
C15_Witness ==
    /\ cur.op = "getversion"
    /\ nsendir = 1
    /\ reply.met = "timeout"
    /\ sock = "open"
    /\ wire = <<>>
    /\ version # <<>>
    /\ result = StrResult(version)

\* the last entry of the record of the call is an exchange
LastIsExchange == wire # <<>> /\ wire[Len(wire)].ev = "exchange"

\* C16: when an exchange of a method called on the object times out, the call
\* ends there and its caller gets the timeout; the object then takes any call,
\* and a call whose exchange the device answers makes that one new exchange and
\* returns what its answer stands for, as if no timeout had been.
C16_TimeoutThenUsable ==
    [][/\ (cur'.op # "__init__" /\ LastIsExchange' /\ reply'.met = "timeout") =>
             /\ pc' = "idle"
             /\ wire'[Len(wire')].ret = Exc("timeout")
             /\ result' = Exc("timeout")
       /\ (/\ pc = "idle"
           /\ reply.met = "timeout"
           /\ wire' # wire
           /\ LastIsExchange'
           /\ reply'.st = "ok")
           => /\ Len(wire') = 1
              /\ sock' = "closed"
              /\ wire'[1].ret.kind \in {"bool", "str"}
              /\ pc' = "idle" => result' = wire'[1].ret
              /\ cur'.op = "getserial" => result' = StrResult(reply'.answ)
              /\ cur'.op = "getrelay" =>
                    result' = Bool(Len(reply'.answ) >= 11 /\ reply'.answ[11] = "1")
              /\ cur'.op = "setrelay" =>
                    result' = Bool(reply'.answ = <<"s","t","a","t","e",",">> \o ConnectorText
                                                   \o <<",">> \o Bit(cur'.onoff))
              /\ cur'.op = "sendir" =>
                    result' = Bool(reply'.answ = <<"c","o","m","p","l","e","t","e","i","r",",">>
                                                   \o ConnectorText \o <<",">> \o Str(cur'.seqno))]_vars

\* a getrelay that timed out: the caller has the timeout, and the object takes
\* the next call
C16_Witness ==
    /\ cur.op = "getrelay"
    /\ pc = "idle"
    /\ Len(wire) = 1
    /\ reply.met = "timeout"
    /\ result = Exc("timeout")
    /\ ENABLED GetSerial
    /\ ENABLED GetRelay
    /\ ENABLED SetRelay(TRUE)

\* C17: a call of sendir, getserial, setrelay or getrelay is one exchange: one
\* request, the one of that method, and what the call hands back is what that
\* exchange came to, an answer or an exception; there is no second request.
C17_OneRoundTrip ==
    cur.op \in {"sendir", "getserial", "setrelay", "getrelay"} =>
        /\ pc = "idle"
        /\ Len(wire) = 1
        /\ wire[1].ev = "exchange"
        /\ wire[1].ret = result
        /\ reply.st # "ok" => result = Exc(reply.st)
        /\ cur.op = "getserial" =>
              wire[1].cmd = <<"g","e","t","_","S","E","R","I","A","L",",">> \o ConnectorText
        /\ cur.op = "setrelay" => wire[1].cmd = SetStateText(cur.onoff)
        /\ cur.op = "getrelay" => wire[1].cmd = GetStateText
        /\ cur.op = "sendir" =>
              SubSeq(wire[1].cmd, 1, 7) = <<"s","e","n","d","i","r",",">>

\* a setrelay whose only exchange ended in a timeout
C17_Witness ==
    /\ cur.op = "setrelay"
    /\ Len(wire) = 1
    /\ reply.met = "timeout"
    /\ result = Exc("timeout")

\* the sequence number written into the request that the record w begins with
EmbeddedIn(w) == Split(w[1].cmd, ",")[3]

\* the sequence number written into the request of the sendir just made
Embedded == EmbeddedIn(wire)

\* C19 as stated: the number in a sendir request is the counter after the
\* increment of that call.
C19_EmbedsIncremented == cur.op = "sendir" => Embedded = Str(seq)

\* C19: the number in a sendir request is the counter before the increment of
\* that call: the k-th sendir of a session carries k and leaves the counter at
\* k + 1, so the numbers of successive requests are strictly increasing.
C19_EmbedsBeforeIncrement ==
    [][/\ cur'.op = "sendir" =>
             /\ EmbeddedIn(wire') = Str(seq' - 1)
             /\ EmbeddedIn(wire') = Str(nsendir')
             /\ cur'.seqno = nsendir'
       /\ nsendir' # nsendir =>
             /\ cur'.op = "sendir"
             /\ nsendir' = nsendir + 1
             /\ EmbeddedIn(wire') = Str(seq)
             /\ seq' = seq + 1]_vars

\* the second sendir of a session: its request carries 2, the counter is 3
C19_Witness ==
    /\ cur.op = "sendir"
    /\ nsendir = 2
    /\ Embedded = <<"2">>
    /\ seq = 3

\* C20 as stated: whenever no call is in progress the object holds no open
\* socket, also after an exchange that ended with a failed connect or a timeout.
C20_NoOpenSocketAtRest == pc \in {"idle", "failed"} => sock # "open"

\* a getserial that timed out has returned, and its socket is still open
C20_Witness ==
    /\ pc = "idle"
    /\ cur.op = "getserial"
    /\ reply.met = "timeout"
    /\ result = Exc("timeout")
    /\ sock = "open"

====
